---------------------------- MODULE Spec2Model ----------------------------
(***************************************************************************)
(* A model of verible's tabular alignment engine                           *)
(* (common/formatting/align.cc) and of the interval set it uses            *)
(* (common/util/interval_set.h).                                           *)
(*                                                                         *)
(* Two specifications share the module:                                    *)
(*   SpecSet    an IntervalSet<T> object driven by Add / Complement calls  *)
(*   SpecAlign  one call of TabularAlignTokens, one step per alignment     *)
(*              group of the loop at align.cc:642                          *)
(***************************************************************************)
EXTENDS Integers, Sequences, FiniteSets, TLC

VARIABLES
  \* ---- IntervalSet<T> ----
  intervals_,     \* the std::map<T,T> of the object under test (min -> max)
  other_,         \* the map of a second IntervalSet object (a copy that took another path)
  before_,        \* history: intervals_ before the last operation
  op_,            \* history: the last operation and its arguments
  check_failed,   \* a CHECK() failed: the process has aborted
  \* ---- TabularAlignTokens ----
  ftokens,        \* the PreFormatToken array that ftoken_base points into
  children,       \* partition_ptr->Children(): the row partitions
  full_text,      \* the source text: its size and the offsets of its newlines
  disabled_byte_ranges,   \* the ByteOffsetSet of format-disabled bytes
  column_limit,
  pc,             \* where the call is: "idle", "start", "loop", "done", "aborted", "again"
  subpartitions_bounds,   \* the group boundaries found at the start of the call
  group_index,    \* the loop variable prev of align.cc:642, as an index
  ftokens_before, \* history: ftokens when the call started
  outcome,        \* history: what the call did with each group so far
  ftokens_again   \* the token array after a second call with the same arguments

isvars == <<intervals_, other_, before_, op_, check_failed>>

alvars == <<ftokens, children, full_text, disabled_byte_ranges, column_limit,
            pc, subpartitions_bounds, group_index, ftokens_before, outcome,
            ftokens_again>>

vars == <<intervals_, other_, before_, op_, check_failed,
          ftokens, children, full_text, disabled_byte_ranges, column_limit,
          pc, subpartitions_bounds, group_index, ftokens_before, outcome,
            ftokens_again>>

(***************************************************************************)
(* Bounds                                                                  *)
(***************************************************************************)
\* The value type T of IntervalSet<T> is modelled as the range 0..TMax.
TMax == 5

(***************************************************************************)
(* Small helpers                                                           *)
(***************************************************************************)
SetMin(S) == CHOOSE x \in S : \A y \in S : x <= y

SetMax(S) == CHOOSE x \in S : \A y \in S : x >= y

(***************************************************************************)
(* Interval<T>  (common/util/interval.h)                                   *)
(***************************************************************************)
Interval(lo, hi) == [min |-> lo, max |-> hi]

valid(iv) == iv.min <= iv.max

empty(iv) == iv.min = iv.max

contains(iv, value) == value >= iv.min /\ value < iv.max

containsInterval(iv, o) == iv.min <= o.min /\ iv.max >= o.max

T == 0..TMax

\* every Interval<T> value, valid or not
AllIntervals == {Interval(lo, hi) : lo \in T, hi \in T}

ValidIntervals == {iv \in AllIntervals : valid(iv)}

(***************************************************************************)
(* std::map<T,T> and its iterators.  A map is a function from its keys to  *)
(* their values; an iterator is the key it points at, end() is EndIt,      *)
(* which compares greater than every key.                                  *)
(***************************************************************************)
EmptyMap == [k \in {} |-> 0]

EndIt == 1000

begin(m) == IF DOMAIN m = {} THEN EndIt ELSE SetMin(DOMAIN m)

lower_bound(m, v) ==
  LET s == {k \in DOMAIN m : k >= v}
  IN  IF s = {} THEN EndIt ELSE SetMin(s)

upper_bound(m, v) ==
  LET s == {k \in DOMAIN m : k > v}
  IN  IF s = {} THEN EndIt ELSE SetMin(s)

\* std::next / std::prev of an iterator of m
next(m, it) == upper_bound(m, it)

prev(m, it) == SetMax({k \in DOMAIN m : k < it})

AsInterval(m, it) == Interval(it, m[it])

\* m.insert({k, v}): <<map, iterator, inserted>>
insert(m, k, v) ==
  IF k \in DOMAIN m
    THEN <<m, k, FALSE>>
    ELSE <<[x \in DOMAIN m \cup {k} |-> IF x = k THEN v ELSE m[x]], k, TRUE>>

\* m.erase(first, last)
erase(m, first, last) ==
  [k \in {x \in DOMAIN m : ~(first <= x /\ x < last)} |-> m[k]]

(***************************************************************************)
(* _IntervalSetImpl                                                        *)
(***************************************************************************)
\* A mutation of FindLowerBound: the interval before the lower bound is
\* not looked at, so an entry that spans value is missed.
FindLowerBoundNoPrev(m, value) == lower_bound(m, value)

FindLowerBound(m, value) ==
  LET iter == lower_bound(m, value)
  IN  IF iter = begin(m)
        THEN iter
        ELSE LET p == prev(m, iter)
             IN  IF contains(AsInterval(m, p), value) THEN p ELSE iter

\* the variant that takes a single value
FindSpanningValue(m, value) ==
  LET iter == upper_bound(m, value)
  IN  IF iter # begin(m)
        THEN LET p == prev(m, iter)
             IN  IF contains(AsInterval(m, p), value) THEN p ELSE EndIt
        ELSE EndIt

\* A mutation of FindSpanningInterval: an empty interval is looked up like
\* any other.
FindSpanningIntervalOfEmpty(m, interval) ==
  LET iter == upper_bound(m, interval.min)
  IN  IF iter # begin(m)
        THEN LET p == prev(m, iter)
             IN  IF containsInterval(AsInterval(m, p), interval)
                   THEN p ELSE EndIt
        ELSE EndIt

\* the variant that takes an interval (the caller has CHECKed interval.valid())
FindSpanningInterval(m, interval) ==
  IF empty(interval)
    THEN EndIt
    ELSE LET iter == upper_bound(m, interval.min)
         IN  IF iter # begin(m)
               THEN LET p == prev(m, iter)
                    IN  IF containsInterval(AsInterval(m, p), interval)
                          THEN p ELSE EndIt
               ELSE EndIt

(***************************************************************************)
(* IntervalSet<T>                                                          *)
(***************************************************************************)
Contains(m, value) == FindSpanningValue(m, value) # EndIt

ContainsInterval(m, interval) == FindSpanningInterval(m, interval) # EndIt

SetsEqual(m1, m2) == m1 = m2

\* CheckIntegrity(): TRUE iff none of its CHECKs fails
CheckIntegrity(m) ==
  \/ DOMAIN m = {}
  \/ /\ \A k \in DOMAIN m : valid(AsInterval(m, k)) /\ ~empty(AsInterval(m, k))
     /\ \A k \in DOMAIN m :
          k # begin(m) => m[prev(m, k)] < k

\* A mutation of Add: the predecessor is fused only when it overlaps, not
\* when it abuts (prev->second > min).
AddNoAbutFuse(m, interval) ==
  IF empty(interval) THEN m
  ELSE
  LET min == interval.min
      max == interval.max
      max_lb == FindLowerBound(m, max)
      spans == max_lb # EndIt /\ contains(AsInterval(m, max_lb), max)
      erase_end == IF spans THEN next(m, max_lb) ELSE max_lb
      new_max == IF spans THEN m[max_lb] ELSE max
      p == insert(m, min, new_max)
      m1 == p[1]
      it == p[2]
  IN  IF p[3]
        THEN IF it = begin(m1)
               THEN erase(m1, next(m1, it), erase_end)
               ELSE LET pv == prev(m1, it)
                    IN  IF m1[pv] > min
                          THEN erase([m1 EXCEPT ![pv] = new_max], it, erase_end)
                          ELSE erase(m1, next(m1, it), erase_end)
        ELSE erase([m1 EXCEPT ![it] = new_max], next(m1, it), erase_end)

\* A mutation of Add: the entry that spans max is erased but its upper
\* bound is not taken over (new_max stays max).
AddDropsSpanningMax(m, interval) ==
  IF empty(interval) THEN m
  ELSE
  LET min == interval.min
      max == interval.max
      max_lb == FindLowerBound(m, max)
      spans == max_lb # EndIt /\ contains(AsInterval(m, max_lb), max)
      erase_end == IF spans THEN next(m, max_lb) ELSE max_lb
      new_max == max
      p == insert(m, min, new_max)
      m1 == p[1]
      it == p[2]
  IN  IF p[3]
        THEN IF it = begin(m1)
               THEN erase(m1, next(m1, it), erase_end)
               ELSE LET pv == prev(m1, it)
                    IN  IF m1[pv] >= min
                          THEN erase([m1 EXCEPT ![pv] = new_max], it, erase_end)
                          ELSE erase(m1, next(m1, it), erase_end)
        ELSE erase([m1 EXCEPT ![it] = new_max], next(m1, it), erase_end)

\* Add(const Interval<T>&) for a valid interval: the map after the call
Add(m, interval) ==
  IF empty(interval) THEN m
  ELSE
  LET min == interval.min
      max == interval.max
      max_lb == FindLowerBound(m, max)
      spans == max_lb # EndIt /\ contains(AsInterval(m, max_lb), max)
      erase_end == IF spans THEN next(m, max_lb) ELSE max_lb
      new_max == IF spans THEN m[max_lb] ELSE max
      p == insert(m, min, new_max)
      m1 == p[1]
      it == p[2]
  IN  IF p[3]
        THEN IF it = begin(m1)
               THEN erase(m1, next(m1, it), erase_end)
               ELSE LET pv == prev(m1, it)
                    IN  IF m1[pv] >= min
                          THEN erase([m1 EXCEPT ![pv] = new_max], it, erase_end)
                          ELSE erase(m1, next(m1, it), erase_end)
        ELSE erase([m1 EXCEPT ![it] = new_max], next(m1, it), erase_end)

\* The iterator range Add passes to erase(): <<erase_begin, erase_end>>.
\* std::map::erase(first, last) is undefined unless first <= last.
AddEraseRange(m, interval) ==
  LET min == interval.min
      max == interval.max
      max_lb == FindLowerBound(m, max)
      spans == max_lb # EndIt /\ contains(AsInterval(m, max_lb), max)
      erase_end == IF spans THEN next(m, max_lb) ELSE max_lb
      new_max == IF spans THEN m[max_lb] ELSE max
      p == insert(m, min, new_max)
      m1 == p[1]
      it == p[2]
  IN  IF p[3]
        THEN IF it = begin(m1)
               THEN <<next(m1, it), erase_end>>
               ELSE IF m1[prev(m1, it)] >= min
                      THEN <<it, erase_end>>
                      ELSE <<next(m1, it), erase_end>>
        ELSE <<next(m1, it), erase_end>>

\* The set of values a map represents
Values(m) == UNION {k..(m[k] - 1) : k \in DOMAIN m}

\* The canonical map of a set of values: one entry per maximal run
MapOfValues(V) ==
  [k \in {v \in V : (v - 1) \notin V} |->
     SetMin({u \in (k + 1)..(SetMax(V) + 1) : u \notin V})]

\* A mutation of Complement: the values below the first stored entry are
\* left out of the result.
ComplementSkipsFront(m, bound) ==
  IF empty(bound) \/ DOMAIN m = {}
    THEN EmptyMap
    ELSE MapOfValues({v \in bound.min..(bound.max - 1) :
                        v >= begin(m) /\ ~Contains(m, v)})

\* Complement(bound): [lo,hi) \ self, in canonical form; an empty bound
\* gives the empty set.
Complement(m, bound) ==
  IF empty(bound)
    THEN EmptyMap
    ELSE MapOfValues({v \in bound.min..(bound.max - 1) : ~Contains(m, v)})


(***************************************************************************)
(* Operations on the IntervalSet object                                    *)
(***************************************************************************)
NoOp == [name |-> "none", a |-> Interval(0, 0), b |-> Interval(0, 0)]

\* The calls that build the set under test; the two-copy comparisons below
\* (both orders, twice) are made on a set built by these and end the run.
BuildOps == {"none", "Add", "Complement"}

\* Add(const Interval<T>&): CHECK(interval.valid()), the insertion, then
\* CheckIntegrity()
AddInterval(interval) ==
  /\ ~check_failed
  /\ op_.name \in BuildOps
  /\ UNCHANGED alvars
  /\ IF ~valid(interval)
       THEN /\ check_failed' = TRUE
            /\ op_' = [name |-> "AddInvalid", a |-> interval, b |-> interval]
            /\ UNCHANGED <<intervals_, other_, before_>>
       ELSE /\ intervals_' = Add(intervals_, interval)
            /\ other_' = intervals_'
            /\ before_' = intervals_
            /\ op_' = [name |-> "Add", a |-> interval, b |-> interval]
            /\ check_failed' = ~CheckIntegrity(intervals_')

\* Add(const T& value) is Add({value, value + 1}); value + 1 is computed in
\* T, so it wraps at the top of the type and the interval is then invalid.
AddValue(value) ==
  /\ pc = "idle"
  /\ AddInterval(Interval(value, (value + 1) % (TMax + 1)))

\* Two copies of the object take the same two Add calls in both orders:
\* intervals_ takes a then b, other_ takes b then a.
AddBothOrders(a, b) ==
  /\ ~check_failed
  /\ op_.name \in BuildOps
  /\ UNCHANGED alvars
  /\ intervals_' = Add(Add(intervals_, a), b)
  /\ other_' = Add(Add(intervals_, b), a)
  /\ before_' = intervals_
  /\ op_' = [name |-> "AddBothOrders", a |-> a, b |-> b]
  /\ check_failed' = ~(CheckIntegrity(intervals_') /\ CheckIntegrity(other_'))

\* One copy takes Add(x) twice (intervals_), the other once (other_).
AddTwice(x) ==
  /\ ~check_failed
  /\ op_.name \in BuildOps
  /\ UNCHANGED alvars
  /\ intervals_' = Add(Add(intervals_, x), x)
  /\ other_' = Add(intervals_, x)
  /\ before_' = intervals_
  /\ op_' = [name |-> "AddTwice", a |-> x, b |-> x]
  /\ check_failed' = ~(CheckIntegrity(intervals_') /\ CheckIntegrity(other_'))

\* Complement(bound)
ComplementSet(bound) ==
  /\ ~check_failed
  /\ op_.name \in BuildOps
  /\ UNCHANGED alvars
  /\ intervals_' = Complement(intervals_, bound)
  /\ other_' = intervals_'
  /\ before_' = intervals_
  /\ op_' = [name |-> "Complement", a |-> bound, b |-> bound]
  /\ UNCHANGED check_failed

\* Complement(bound) called twice in a row; other_ keeps the set in between
ComplementTwice(bound) ==
  /\ ~check_failed
  /\ op_.name \in BuildOps
  /\ UNCHANGED alvars
  /\ other_' = Complement(intervals_, bound)
  /\ intervals_' = Complement(other_', bound)
  /\ before_' = intervals_
  /\ op_' = [name |-> "ComplementTwice", a |-> bound, b |-> bound]
  /\ UNCHANGED check_failed

\* no TabularAlignTokens call is in progress
AlignIdle ==
  /\ ftokens = << >>
  /\ children = << >>
  /\ full_text = [size |-> 0, newlines |-> {}]
  /\ disabled_byte_ranges = EmptyMap
  /\ column_limit = 0
  /\ pc = "idle"
  /\ subpartitions_bounds = << >>
  /\ group_index = 0
  /\ ftokens_before = << >>
  /\ ftokens_again = << >>
  /\ outcome = << >>

InitSet ==
  /\ intervals_ = EmptyMap
  /\ other_ = EmptyMap
  /\ before_ = EmptyMap
  /\ op_ = NoOp
  /\ check_failed = FALSE
  /\ AlignIdle

NextSet ==
  \/ \E interval \in AllIntervals : AddInterval(interval)
  \/ \E value \in T : AddValue(value)
  \/ \E a \in ValidIntervals, b \in ValidIntervals : AddBothOrders(a, b)
  \/ \E x \in ValidIntervals : AddTwice(x)
  \/ \E bound \in ValidIntervals : ComplementSet(bound)
  \/ \E bound \in ValidIntervals : ComplementTwice(bound)

SpecSet == InitSet /\ [][NextSet]_vars

(***************************************************************************)
(* Tokens, partitions and text  (the types align.cc works on)              *)
(*                                                                         *)
(* A PreFormatToken is [tb, len, spaces_required]: its text is the slice   *)
(* [tb, tb + len) of full_text, and before.spaces_required.  A token is    *)
(* named by its index in ftokens; two texts are BoundsEqual iff they are   *)
(* the same slice, i.e. belong to the same token.                          *)
(* A row partition is an UnwrappedLine [b, e, indent, kind, leaf, ignored, *)
(* sparse]: TokensRange() is ftokens[b .. e-1], IndentationSpaces(), the   *)
(* node enum of Origin(), the token that is the rightmost leaf of          *)
(* Origin(), what ignore_pred answers for the row, and what the cell       *)
(* scanner returns for it: a sequence of ColumnPositionEntry               *)
(* [path, tok, flush_left].                                                *)
(***************************************************************************)
TextBegin(ft) == ft.tb

TextEnd(ft) == ft.tb + ft.len

\* PreFormatToken::LeadingSpacesLength(): before.spaces_required, as no
\* token of the model asks for its original spacing to be preserved.
LeadingSpacesLength(ft) == ft.spaces_required

\* UnwrappedLine::TokensRange() as the set of token indices, and emptiness
TokensRange(row) == row.b..(row.e - 1)

RangeEmpty(b, e) == b = e

\* SyntaxTreePath is a vector of child indices, ordered lexicographically
RECURSIVE PathLess(_, _)
PathLess(p, q) ==
  IF q = << >> THEN FALSE
  ELSE IF p = << >> THEN TRUE
  ELSE IF Head(p) # Head(q) THEN Head(p) < Head(q)
  ELSE PathLess(Tail(p), Tail(q))

\* the number of '\n' in the slice [from, to) of full_text
CountNewlines(text, from, to) ==
  Cardinality({o \in text.newlines : from <= o /\ o < to})

(***************************************************************************)
(* BlankLineSeparatorDetector and FindPartitionGroupBoundaries             *)
(***************************************************************************)
\* A mutation of BlankLineSeparatorDetector: previous_end_ is never moved,
\* so every gap is measured from the first child.
BlankLineSeparatorDetectorStaleEnd(rows, toks, text, i, previous_end) ==
  LET node == rows[i]
  IN  IF RangeEmpty(node.b, node.e)
        THEN <<FALSE, previous_end>>
        ELSE <<CountNewlines(text, previous_end, TextBegin(toks[node.b])) >= 2,
               previous_end>>

\* BlankLineSeparatorDetector::operator() on child i with the detector's
\* previous_end_: <<new_bound, previous_end_ afterwards>>
BlankLineSeparatorDetector(rows, toks, text, i, previous_end) ==
  LET node == rows[i]
  IN  IF RangeEmpty(node.b, node.e)
        THEN <<FALSE, previous_end>>
        ELSE <<CountNewlines(text, previous_end, TextBegin(toks[node.b])) >= 2,
               TextEnd(toks[node.e - 1])>>

\* verible::find_all over the children from i on: the positions at which
\* the detector answers true
RECURSIVE FindAllBoundaries(_, _, _, _, _)
FindAllBoundaries(rows, toks, text, i, previous_end) ==
  IF i > Len(rows) THEN << >>
  ELSE LET d == BlankLineSeparatorDetector(rows, toks, text, i, previous_end)
       IN  (IF d[1] THEN <<i>> ELSE << >>)
             \o FindAllBoundaries(rows, toks, text, i + 1, d[2])

\* FindPartitionGroupBoundaries: begin, the blank-line positions, end
FindPartitionGroupBoundaries(rows, toks, text) ==
  IF rows = << >> THEN << >>
  ELSE <<1>>
         \o FindAllBoundaries(rows, toks, text, 1, TextBegin(toks[rows[1].b]))
         \o <<Len(rows) + 1>>

(***************************************************************************)
(* Format-disabled ranges                                                  *)
(***************************************************************************)
\* A mutation of StringSpanOfPartitionRange: the span of the first row of
\* the range only.
StringSpanOfFrontPartition(rows, toks, gb, ge) ==
  Interval(TextBegin(toks[rows[gb].b]), TextEnd(toks[rows[gb].e - 1]))

\* StringSpanOfPartitionRange followed by SubstringOffsets: the byte
\* offsets in full_text of the rows gb .. ge-1 (both CHECKs hold: no row of
\* the model has an empty token range)
StringSpanOfPartitionRange(rows, toks, gb, ge) ==
  Interval(TextBegin(toks[rows[gb].b]), TextEnd(toks[rows[ge - 1].e - 1]))

\* A mutation of AnyPartitionSubRangeIsDisabled: the group counts as
\* disabled only when no byte of its span is enabled.
AllOfPartitionRangeIsDisabled(rows, toks, gb, ge, disabled) ==
  LET span_offsets == StringSpanOfPartitionRange(rows, toks, gb, ge)
  IN  SetsEqual(Complement(disabled, span_offsets), EmptyMap)

AnyPartitionSubRangeIsDisabled(rows, toks, gb, ge, disabled) ==
  LET span_offsets == StringSpanOfPartitionRange(rows, toks, gb, ge)
      diff == Complement(disabled, span_offsets)
      span_set == Add(EmptyMap, span_offsets)
  IN  ~SetsEqual(diff, span_set)

(***************************************************************************)
(* Row extraction and validation                                           *)
(***************************************************************************)
GetPartitionNodeEnum(row) == row.kind

\* A mutation of VerifyRowsOriginalNodeTypes: only the second row is
\* compared with the first.
VerifySecondRowNodeType(rows) ==
  GetPartitionNodeEnum(rows[2]) = GetPartitionNodeEnum(rows[1])

VerifyRowsOriginalNodeTypes(rows) ==
  \A i \in 2..Len(rows) :
    GetPartitionNodeEnum(rows[i]) = GetPartitionNodeEnum(rows[1])

\* A mutation of the backward scan: it stops before the leaf instead of
\* after it.
RECURSIVE ScanBackBeforeLeaf(_, _)
ScanBackBeforeLeaf(range_end, leaf) ==
  IF range_end - 1 < 1 THEN 0
  ELSE IF range_end - 1 = leaf THEN range_end - 1
  ELSE ScanBackBeforeLeaf(range_end - 1, leaf)

\* the backward scan of GetMutableFormatTokenRange: the range_end at which
\* it stops, or 0 when it runs off the front of the token array
RECURSIVE ScanBackToLeaf(_, _)
ScanBackToLeaf(range_end, leaf) ==
  IF range_end - 1 < 1 THEN 0
  ELSE IF range_end - 1 = leaf THEN range_end
  ELSE ScanBackToLeaf(range_end - 1, leaf)

\* the positions of the token array the backward scan reads: from the
\* last token of the partition down to the leaf, or down to position 0,
\* before the first token of the array, when it never meets the leaf
ScanInspected(range_end, leaf) ==
  LET stop == ScanBackToLeaf(range_end, leaf)
  IN  IF stop = 0 THEN 0..(range_end - 1) ELSE (stop - 1)..(range_end - 1)

\* GetMutableFormatTokenRange: [b, e) with st = "ok", or st = "check" when
\* CHECK(range_begin <= range_end) fails, or st = "undefined" when the scan
\* reads before the first token of the array
GetMutableFormatTokenRange(row) ==
  LET range_end == ScanBackToLeaf(row.e, row.leaf)
  IN  IF range_end = 0 THEN [b |-> row.b, e |-> row.b, st |-> "undefined"]
      ELSE IF ~(row.b <= range_end) THEN [b |-> row.b, e |-> range_end, st |-> "check"]
      ELSE [b |-> row.b, e |-> range_end, st |-> "ok"]

(***************************************************************************)
(* ColumnSchemaAggregator                                                  *)
(***************************************************************************)
\* the keys of cell_map_: the paths of all anchors of all rows
CellMapPaths(rows) ==
  UNION {{rows[i].sparse[k].path : k \in 1..Len(rows[i].sparse)} : i \in 1..Len(rows)}

\* FinalizeColumnIndices / ColumnPositions: the keys in map order
RECURSIVE SortedPaths(_)
SortedPaths(S) ==
  IF S = {} THEN << >>
  ELSE LET least == CHOOSE p \in S : \A q \in S : q = p \/ PathLess(p, q)
       IN  <<least>> \o SortedPaths(S \ {least})

\* AggregateColumnData::Import keeps the properties of the first anchor
\* seen for a path: the first row that has the path, its first such anchor
FirstSeenProperties(rows, path) ==
  LET i == SetMin({r \in 1..Len(rows) :
                     \E k \in 1..Len(rows[r].sparse) : rows[r].sparse[k].path = path})
      k == SetMin({x \in 1..Len(rows[i].sparse) : rows[i].sparse[x].path = path})
  IN  [flush_left |-> rows[i].sparse[k].flush_left]

ColumnProperties(rows, column_positions) ==
  [c \in 1..Len(column_positions) |-> FirstSeenProperties(rows, column_positions[c])]

(***************************************************************************)
(* FillAlignmentRow                                                        *)
(***************************************************************************)
\* std::find(pos_iter, cend, path): the column index, or 0 for cend
FindColumn(column_positions, pos_iter, path) ==
  LET s == {c \in pos_iter..Len(column_positions) : column_positions[c] = path}
  IN  IF s = {} THEN 0 ELSE SetMin(s)

\* std::find_if(token_iter, token_end, BoundsEqual(text, starting_token)):
\* the token, or token_end
FindToken(token_iter, token_end, tok) ==
  IF token_iter <= tok /\ tok < token_end THEN tok ELSE token_end

\* The first loop of FillAlignmentRow from anchor k on.  begins[c] is the
\* begin of cell c (0: not set yet); last is last_column_index.
\* Result: [begins, last, ok]; ok is FALSE when a CHECK fails.
RECURSIVE FillLowerBounds(_, _, _, _, _, _, _, _)
FillLowerBounds(sparse, column_positions, token_end, k, pos_iter, token_iter, last, begins) ==
  IF k > Len(sparse) THEN [begins |-> begins, last |-> last, ok |-> TRUE]
  ELSE
    LET col == sparse[k]
        column_index == FindColumn(column_positions, pos_iter, col.path)
        found == FindToken(token_iter, token_end, col.tok)
    IN  IF column_index = 0 \/ found = token_end
          THEN [begins |-> begins, last |-> last, ok |-> FALSE]
          ELSE FillLowerBounds(sparse, column_positions, token_end, k + 1,
                 column_index, found,
                 IF column_index > last THEN column_index ELSE last,
                 [c \in DOMAIN begins |->
                    IF c > last /\ c <= column_index THEN found ELSE begins[c]])

\* A mutation of FillAlignmentRow: the pass that sets the upper bounds gives
\* every cell the end of the row's token range.
FillAlignmentRowUpToRowEnd(ftoken_range, sparse, column_positions) ==
  LET n == Len(column_positions)
      token_end == ftoken_range.e
      low == FillLowerBounds(sparse, column_positions, token_end, 1, 1,
                             ftoken_range.b, 0, [c \in 1..n |-> 0])
      lower == [c \in 1..n |-> IF c > low.last THEN token_end ELSE low.begins[c]]
  IN  [ok |-> low.ok,
       cells |-> [c \in 1..n |-> [b |-> lower[c], e |-> token_end]]]

\* FillAlignmentRow: the cells [b, e) of the row, one per column
FillAlignmentRow(ftoken_range, sparse, column_positions) ==
  LET n == Len(column_positions)
      token_end == ftoken_range.e
      low == FillLowerBounds(sparse, column_positions, token_end, 1, 1,
                             ftoken_range.b, 0, [c \in 1..n |-> 0])
      lower == [c \in 1..n |-> IF c > low.last THEN token_end ELSE low.begins[c]]
  IN  [ok |-> low.ok,
       cells |-> [c \in 1..n |->
                    [b |-> lower[c],
                     e |-> IF c = n THEN token_end ELSE lower[c + 1]]]]

(***************************************************************************)
(* Widths                                                                  *)
(***************************************************************************)
RECURSIVE SumTokenWidths(_, _, _)
SumTokenWidths(toks, b, e) ==
  IF b >= e THEN 0
  ELSE LeadingSpacesLength(toks[b]) + toks[b].len + SumTokenWidths(toks, b + 1, e)

\* A mutation of EffectiveCellWidth: the leading spaces of the first token
\* are counted in the width.
EffectiveCellWidthWithBorder(toks, b, e) ==
  IF RangeEmpty(b, e) THEN 0 ELSE SumTokenWidths(toks, b, e)

EffectiveCellWidth(toks, b, e) ==
  IF RangeEmpty(b, e) THEN 0
  ELSE SumTokenWidths(toks, b, e) - LeadingSpacesLength(toks[b])

EffectiveLeftBorderWidth(toks, b, e) ==
  IF RangeEmpty(b, e) THEN 0 ELSE toks[b].spaces_required

\* AlignmentCell::UpdateWidths via ComputeCellWidths
UpdateWidths(toks, cell) ==
  [b |-> cell.b, e |-> cell.e,
   compact_width |-> EffectiveCellWidth(toks, cell.b, cell.e),
   left_border_width |-> EffectiveLeftBorderWidth(toks, cell.b, cell.e)]

RECURSIVE MaxOver(_, _)
MaxOver(f, n) ==
  IF n = 0 THEN 0
  ELSE LET m == MaxOver(f, n - 1) IN IF f[n] > m THEN f[n] ELSE m

\* ComputeColumnWidths: AlignedColumnConfiguration per column, each
\* UpdateFromCell taking the maximum, starting from 0
ComputeColumnWidths(matrix, num_columns) ==
  [c \in 1..num_columns |->
     [width |-> MaxOver([r \in 1..Len(matrix) |-> matrix[r][c].compact_width], Len(matrix)),
      left_border |-> MaxOver([r \in 1..Len(matrix) |-> matrix[r][c].left_border_width],
                              Len(matrix))]]

TotalWidth(config) == config.left_border + config.width

RECURSIVE SumTotalWidths(_, _)
SumTotalWidths(column_configs, n) ==
  IF n = 0 THEN 0
  ELSE TotalWidth(column_configs[n]) + SumTotalWidths(column_configs, n - 1)

(***************************************************************************)
(* AlignRowSpacings                                                        *)
(***************************************************************************)
\* A mutation of the loop of AlignRowSpacings: the spacing is written to
\* the last token of the cell instead of the first.
RECURSIVE AlignRowSpacingsOnLastToken(_, _, _, _, _, _)
AlignRowSpacingsOnLastToken(column_configs, properties, row, toks, c, accrued_spaces) ==
  IF c > Len(row) THEN toks
  ELSE
    LET cell == row[c]
        accrued == accrued_spaces + column_configs[c].left_border
    IN  IF RangeEmpty(cell.b, cell.e)
          THEN AlignRowSpacingsOnLastToken(column_configs, properties, row, toks, c + 1,
                                           accrued + column_configs[c].width)
          ELSE LET padding == column_configs[c].width - cell.compact_width
               IN  IF properties[c].flush_left
                     THEN AlignRowSpacingsOnLastToken(column_configs, properties, row,
                            [toks EXCEPT ![cell.e - 1].spaces_required = accrued],
                            c + 1, padding)
                     ELSE AlignRowSpacingsOnLastToken(column_configs, properties, row,
                            [toks EXCEPT ![cell.e - 1].spaces_required = accrued + padding],
                            c + 1, 0)

\* A mutation of the loop of AlignRowSpacings: the padding of a flush-left
\* cell is not carried to the next column.
RECURSIVE AlignRowSpacingsNoCarry(_, _, _, _, _, _)
AlignRowSpacingsNoCarry(column_configs, properties, row, toks, c, accrued_spaces) ==
  IF c > Len(row) THEN toks
  ELSE
    LET cell == row[c]
        accrued == accrued_spaces + column_configs[c].left_border
    IN  IF RangeEmpty(cell.b, cell.e)
          THEN AlignRowSpacingsNoCarry(column_configs, properties, row, toks, c + 1,
                                       accrued + column_configs[c].width)
          ELSE LET padding == column_configs[c].width - cell.compact_width
               IN  IF properties[c].flush_left
                     THEN AlignRowSpacingsNoCarry(column_configs, properties, row,
                            [toks EXCEPT ![cell.b].spaces_required = accrued],
                            c + 1, 0)
                     ELSE AlignRowSpacingsNoCarry(column_configs, properties, row,
                            [toks EXCEPT ![cell.b].spaces_required = accrued + padding],
                            c + 1, 0)

\* The loop of AlignRowSpacings from column c on, with accrued_spaces;
\* the result is the token array with the row's spacings set.
RECURSIVE AlignRowSpacingsFrom(_, _, _, _, _, _)
AlignRowSpacingsFrom(column_configs, properties, row, toks, c, accrued_spaces) ==
  IF c > Len(row) THEN toks
  ELSE
    LET cell == row[c]
        accrued == accrued_spaces + column_configs[c].left_border
    IN  IF RangeEmpty(cell.b, cell.e)
          THEN AlignRowSpacingsFrom(column_configs, properties, row, toks, c + 1,
                                    accrued + column_configs[c].width)
          ELSE LET padding == column_configs[c].width - cell.compact_width
               IN  IF properties[c].flush_left
                     THEN AlignRowSpacingsFrom(column_configs, properties, row,
                            [toks EXCEPT ![cell.b].spaces_required = accrued],
                            c + 1, padding)
                     ELSE AlignRowSpacingsFrom(column_configs, properties, row,
                            [toks EXCEPT ![cell.b].spaces_required = accrued + padding],
                            c + 1, 0)

AlignRowSpacings(column_configs, properties, row, toks) ==
  AlignRowSpacingsFrom(column_configs, properties, row, toks, 1, 0)

\* the loop at align.cc:565 over the rows of the matrix, from row r on
RECURSIVE AlignAllRows(_, _, _, _, _)
AlignAllRows(column_configs, properties, matrix, toks, r) ==
  IF r > Len(matrix) THEN toks
  ELSE AlignAllRows(column_configs, properties, matrix,
                    AlignRowSpacings(column_configs, properties, matrix[r], toks),
                    r + 1)

(***************************************************************************)
(* AlignFilteredRows                                                       *)
(***************************************************************************)
\* What AlignFilteredRows computes for the qualified rows before it decides:
\* the row data, the schema, the matrix with its cell widths, the column
\* configurations and the total width.
AlignmentPlan(rows, toks) ==
  LET ranges == [r \in 1..Len(rows) |-> GetMutableFormatTokenRange(rows[r])]
      column_positions == SortedPaths(CellMapPaths(rows))
      num_columns == Len(column_positions)
      filled == [r \in 1..Len(rows) |->
                   FillAlignmentRow(ranges[r], rows[r].sparse, column_positions)]
      matrix == [r \in 1..Len(rows) |->
                   [c \in 1..num_columns |-> UpdateWidths(toks, filled[r].cells[c])]]
      column_configs == ComputeColumnWidths(matrix, num_columns)
      indentation == rows[1].indent
  IN  [ranges |-> ranges,
       column_positions |-> column_positions,
       num_columns |-> num_columns,
       filled_ok |-> \A r \in 1..Len(rows) : filled[r].ok,
       matrix |-> matrix,
       column_configs |-> column_configs,
       column_properties |-> ColumnProperties(rows, column_positions),
       total_column_width |-> indentation + SumTotalWidths(column_configs, num_columns)]

\* the epilog of row r: from the end of its last cell to the end of the
\* partition's tokens
EpilogWidth(rows, toks, plan, r) ==
  EffectiveCellWidth(toks, plan.matrix[r][plan.num_columns].e, rows[r].e)

\* A mutation of AlignFilteredRows: the epilog of each row is checked just
\* before that row is respaced, so the rows before an overflowing one are
\* already aligned when the function gives up.
AlignFilteredRowsEpilogLate(rows, toks, limit) ==
  IF Len(rows) <= 1 THEN [result |-> "too_few_rows", toks |-> toks]
  ELSE IF ~VerifyRowsOriginalNodeTypes(rows)
    THEN [result |-> "node_types_differ", toks |-> toks]
  ELSE IF \E r \in 1..Len(rows) : GetMutableFormatTokenRange(rows[r]).st = "undefined"
    THEN [result |-> "undefined", toks |-> toks]
  ELSE IF \E r \in 1..Len(rows) : GetMutableFormatTokenRange(rows[r]).st = "check"
    THEN [result |-> "check", toks |-> toks]
  ELSE
    LET plan == AlignmentPlan(rows, toks)
        bad == {r \in 1..Len(rows) :
                  plan.num_columns > 0
                  /\ plan.total_column_width + EpilogWidth(rows, toks, plan, r) > limit}
    IN  IF ~plan.filled_ok
          THEN [result |-> "check", toks |-> toks]
        ELSE IF plan.total_column_width > limit
          THEN [result |-> "width_exceeds", toks |-> toks]
        ELSE IF bad # {}
          THEN [result |-> "epilog_exceeds",
                toks |-> AlignAllRows(plan.column_configs, plan.column_properties,
                           SubSeq(plan.matrix, 1, SetMin(bad) - 1), toks, 1)]
        ELSE [result |-> "aligned",
              toks |-> AlignAllRows(plan.column_configs, plan.column_properties,
                                    plan.matrix, toks, 1)]

\* A mutation of AlignFilteredRows: the column budget is compared with >=,
\* so a total equal to the limit is refused.
AlignFilteredRowsStrictBudget(rows, toks, limit) ==
  IF Len(rows) <= 1 THEN [result |-> "too_few_rows", toks |-> toks]
  ELSE IF ~VerifyRowsOriginalNodeTypes(rows)
    THEN [result |-> "node_types_differ", toks |-> toks]
  ELSE IF \E r \in 1..Len(rows) : GetMutableFormatTokenRange(rows[r]).st = "undefined"
    THEN [result |-> "undefined", toks |-> toks]
  ELSE IF \E r \in 1..Len(rows) : GetMutableFormatTokenRange(rows[r]).st = "check"
    THEN [result |-> "check", toks |-> toks]
  ELSE
    LET plan == AlignmentPlan(rows, toks)
    IN  IF ~plan.filled_ok
          THEN [result |-> "check", toks |-> toks]
        ELSE IF plan.total_column_width >= limit
          THEN [result |-> "width_exceeds", toks |-> toks]
        ELSE IF \E r \in 1..Len(rows) :
                  plan.num_columns > 0
                  /\ plan.total_column_width + EpilogWidth(rows, toks, plan, r) > limit
          THEN [result |-> "epilog_exceeds", toks |-> toks]
        ELSE [result |-> "aligned",
              toks |-> AlignAllRows(plan.column_configs, plan.column_properties,
                                    plan.matrix, toks, 1)]

\* AlignFilteredRows(rows, ..., column_limit): how it ends and the token
\* array it leaves.  "check" and "undefined" are a failed CHECK and a read
\* before the token array; every other result but "aligned" is a return
\* before any spacing is set.
AlignFilteredRows(rows, toks, limit) ==
  IF Len(rows) <= 1 THEN [result |-> "too_few_rows", toks |-> toks]
  ELSE IF ~VerifyRowsOriginalNodeTypes(rows)
    THEN [result |-> "node_types_differ", toks |-> toks]
  ELSE IF \E r \in 1..Len(rows) : GetMutableFormatTokenRange(rows[r]).st = "undefined"
    THEN [result |-> "undefined", toks |-> toks]
  ELSE IF \E r \in 1..Len(rows) : GetMutableFormatTokenRange(rows[r]).st = "check"
    THEN [result |-> "check", toks |-> toks]
  ELSE
    LET plan == AlignmentPlan(rows, toks)
    IN  IF ~plan.filled_ok
          THEN [result |-> "check", toks |-> toks]
        ELSE IF plan.total_column_width > limit
          THEN [result |-> "width_exceeds", toks |-> toks]
        ELSE IF \E r \in 1..Len(rows) :
                  plan.num_columns > 0
                  /\ plan.total_column_width + EpilogWidth(rows, toks, plan, r) > limit
          THEN [result |-> "epilog_exceeds", toks |-> toks]
        ELSE [result |-> "aligned",
              toks |-> AlignAllRows(plan.column_configs, plan.column_properties,
                                    plan.matrix, toks, 1)]

\* AlignPartitionGroup: the rows of the group that ignore_pred lets through
QualifiedPartitions(rows, gb, ge) ==
  SelectSeq(SubSeq(rows, gb, ge - 1), LAMBDA row : ~row.ignored)

AlignPartitionGroup(rows, toks, gb, ge, limit) ==
  AlignFilteredRows(QualifiedPartitions(rows, gb, ge), toks, limit)

(***************************************************************************)
(* TabularAlignTokens, one step per group of the loop at align.cc:642      *)
(***************************************************************************)
NumGroups(bounds) == IF bounds = << >> THEN 0 ELSE Len(bounds) - 1

\* where the loop goes after the group at index g
AfterGroup(g) == IF g + 1 > NumGroups(subpartitions_bounds) THEN "done" ELSE "loop"

\* entry of TabularAlignTokens up to the loop: an empty parent returns at
\* once, otherwise the group boundaries are found
TabularAlignTokensBegin ==
  /\ pc = "start"
  /\ subpartitions_bounds' = FindPartitionGroupBoundaries(children, ftokens, full_text)
  /\ group_index' = 1
  /\ pc' = IF children = << >> THEN "done" ELSE "loop"
  /\ UNCHANGED <<ftokens, children, full_text, disabled_byte_ranges, column_limit,
                 ftokens_before, outcome, ftokens_again>>
  /\ UNCHANGED isvars

\* one iteration of the loop that takes the `continue`: the group is empty
\* or AnyPartitionSubRangeIsDisabled
SkipDisabledGroup ==
  /\ pc = "loop"
  /\ LET gb == subpartitions_bounds[group_index]
         ge == subpartitions_bounds[group_index + 1]
     IN  \/ RangeEmpty(gb, ge)
         \/ AnyPartitionSubRangeIsDisabled(children, ftokens, gb, ge, disabled_byte_ranges)
  /\ outcome' = Append(outcome,
                       IF RangeEmpty(subpartitions_bounds[group_index],
                                     subpartitions_bounds[group_index + 1])
                         THEN "empty" ELSE "disabled")
  /\ group_index' = group_index + 1
  /\ pc' = AfterGroup(group_index)
  /\ UNCHANGED <<ftokens, children, full_text, disabled_byte_ranges, column_limit,
                 subpartitions_bounds, ftokens_before, ftokens_again>>
  /\ UNCHANGED isvars

\* What a call of AlignPartitionGroup can end in.  A scan that reads before
\* the first token of the array is undefined: the process dies at the read
\* ("undefined"), or it reads something that stops the scan there and the
\* CHECK after the loop fails ("check").
OutcomesOf(result) ==
  IF result = "undefined" THEN {"undefined", "check"} ELSE {result}

\* one iteration of the loop that calls AlignPartitionGroup
AlignGroup ==
  /\ pc = "loop"
  /\ LET gb == subpartitions_bounds[group_index]
         ge == subpartitions_bounds[group_index + 1]
         done == AlignPartitionGroup(children, ftokens, gb, ge, column_limit)
     IN  /\ ~RangeEmpty(gb, ge)
         /\ ~AnyPartitionSubRangeIsDisabled(children, ftokens, gb, ge, disabled_byte_ranges)
         /\ ftokens' = done.toks
         /\ \E res \in OutcomesOf(done.result) :
              /\ outcome' = Append(outcome, res)
              /\ check_failed' = (res \in {"check", "undefined"})
              /\ pc' = IF res \in {"check", "undefined"}
                         THEN "aborted" ELSE AfterGroup(group_index)
  /\ group_index' = group_index + 1
  /\ UNCHANGED <<children, full_text, disabled_byte_ranges, column_limit,
                 subpartitions_bounds, ftokens_before, ftokens_again>>
  /\ UNCHANGED <<intervals_, other_, before_, op_>>

\* The loop of TabularAlignTokens from group g on, as one function of the
\* token array; a failed CHECK ends it.
RECURSIVE AlignGroupsFrom(_, _, _, _, _, _)
AlignGroupsFrom(rows, toks, bounds, g, disabled, limit) ==
  IF g > NumGroups(bounds) THEN toks
  ELSE
    LET gb == bounds[g]
        ge == bounds[g + 1]
    IN  IF RangeEmpty(gb, ge) \/ AnyPartitionSubRangeIsDisabled(rows, toks, gb, ge, disabled)
          THEN AlignGroupsFrom(rows, toks, bounds, g + 1, disabled, limit)
          ELSE LET done == AlignPartitionGroup(rows, toks, gb, ge, limit)
               IN  IF done.result \in {"check", "undefined"}
                     THEN done.toks
                     ELSE AlignGroupsFrom(rows, done.toks, bounds, g + 1, disabled, limit)

\* a whole call of TabularAlignTokens as a function of the token array
TabularAlignTokens(rows, toks, text, disabled, limit) ==
  IF rows = << >> THEN toks
  ELSE AlignGroupsFrom(rows, toks, FindPartitionGroupBoundaries(rows, toks, text),
                       1, disabled, limit)

\* after the call has returned, the caller calls TabularAlignTokens again
\* with the same arguments
TabularAlignTokensAgain ==
  /\ pc = "done"
  /\ ftokens_again' = TabularAlignTokens(children, ftokens, full_text,
                                         disabled_byte_ranges, column_limit)
  /\ pc' = "again"
  /\ UNCHANGED <<ftokens, children, full_text, disabled_byte_ranges, column_limit,
                 subpartitions_bounds, group_index, ftokens_before, outcome>>
  /\ UNCHANGED isvars

NextAlign ==
  \/ TabularAlignTokensBegin
  \/ SkipDisabledGroup
  \/ AlignGroup
  \/ TabularAlignTokensAgain

(***************************************************************************)
(* The inputs of a call.  A row is described by [toks, leafpos, anchors,   *)
(* indent, kind, ignored] with positions counted inside the row; the token *)
(* array, the partitions and the text are laid out from the descriptions:  *)
(* the tokens of a row are one space apart, row i + 1 follows row i after  *)
(* gaps[i] newlines.                                                       *)
(***************************************************************************)
RECURSIVE RowTokens(_, _, _)
RowTokens(toks, j, offset) ==
  IF j > Len(toks) THEN << >>
  ELSE <<[tb |-> offset, len |-> toks[j].len,
          spaces_required |-> toks[j].spaces_required]>>
         \o RowTokens(toks, j + 1, offset + toks[j].len + 1)

RECURSIVE LayOut(_, _, _, _, _)
LayOut(specs, gaps, i, offset, acc) ==
  IF i > Len(specs) THEN [acc EXCEPT !.full_text.size = offset]
  ELSE
    LET spec == specs[i]
        first == Len(acc.ftokens) + 1
        row_tokens == RowTokens(spec.toks, 1, offset)
        row_end == IF row_tokens = << >> THEN offset
                   ELSE TextEnd(row_tokens[Len(row_tokens)])
        row == [b |-> first,
                e |-> first + Len(row_tokens),
                indent |-> spec.indent,
                kind |-> spec.kind,
                leaf |-> first + spec.leafpos - 1,
                ignored |-> spec.ignored,
                sparse |-> [k \in 1..Len(spec.anchors) |->
                              [path |-> spec.anchors[k].path,
                               tok |-> first + spec.anchors[k].pos - 1,
                               flush_left |-> spec.anchors[k].flush_left]]]
    IN  LayOut(specs, gaps, i + 1, row_end + gaps[i],
               [ftokens |-> acc.ftokens \o row_tokens,
                children |-> Append(acc.children, row),
                full_text |-> [size |-> 0,
                               newlines |-> acc.full_text.newlines
                                              \cup (row_end..(row_end + gaps[i] - 1))]])

Laid(specs, gaps) ==
  LayOut(specs, gaps, 1, 0,
         [ftokens |-> << >>, children |-> << >>,
          full_text |-> [size |-> 0, newlines |-> {}]])

\* ---- the sets the inputs are drawn from ----
\* token texts are 1..MaxTokLen bytes long
MaxTokLen == 2

\* the spaces_required the caller has set are 0..MaxSpaces
MaxSpaces == 1

\* the parent partition has up to MaxRows children
MaxRows == 3

\* the caller's column limit
ColumnLimit == 40

Tok(l, sp) == [len |-> l, spaces_required |-> sp]

FreeTokens == {Tok(l, sp) : l \in 1..MaxTokLen, sp \in 0..MaxSpaces}

\* the syntax tree paths the cell scanner uses, in increasing order
PathsInOrder == <<<<0>>, <<0, 1>>, <<1>>, <<2>>>>

\* the indentations of the rows: none, and two that bring the widths of
\* the model's rows up to the column limit
IndentChoices == {0, ColumnLimit - 5, ColumnLimit - 3}

RECURSIVE Flatten(_)
Flatten(seqs) ==
  IF seqs = << >> THEN << >> ELSE Head(seqs) \o Flatten(Tail(seqs))

\* A row given by its cells: the tokens before the first anchor, the tokens
\* of the cell of each path (<< >>: the scanner reports no anchor for the
\* path), and the tokens after the rightmost leaf of the row's subtree.
\* The scanner keeps its contract: one anchor per non-empty cell, on the
\* cell's first token, in path order.
RowOf(pre, cells, epilog, flush, indent, kind, ignored) ==
  LET present == SelectSeq([c \in 1..Len(cells) |-> c], LAMBDA c : cells[c] # << >>)
      start(c) == Len(pre) + Len(Flatten(SubSeq(cells, 1, c - 1))) + 1
  IN  [toks |-> pre \o Flatten(cells) \o epilog,
       leafpos |-> Len(pre) + Len(Flatten(cells)),
       anchors |-> [k \in 1..Len(present) |->
                      [path |-> PathsInOrder[present[k]],
                       pos |-> start(present[k]),
                       flush_left |-> flush[present[k]]]],
       indent |-> indent, kind |-> kind, ignored |-> ignored]

\* Family "cells": two rows over two columns; a cell of the first column
\* is absent or one token with one space before it, a cell of the second is
\* absent or one free token; every combination of flush-left and
\* flush-right columns.
OneTokenCells == {<< >>} \cup {<<t>> : t \in FreeTokens}

CellsRows(flush, indent) ==
  {RowOf(<< >>, <<c1, c2>>, << >>, flush, indent, 1, FALSE) :
     c1 \in {<< >>} \cup {<<Tok(l, 1)>> : l \in 1..MaxTokLen},
     c2 \in OneTokenCells} \ 
  {RowOf(<< >>, <<<< >>, << >>>>, << >>, flush, indent, 1, FALSE)}

InputsCells(flush, indent) ==
  {[specs |-> <<r1, r2>>, gaps |-> <<1, 1>>, disabled |-> EmptyMap,
    limit |-> ColumnLimit, childless |-> FALSE] :
     r1 \in CellsRows(flush, indent), r2 \in CellsRows(flush, indent)}

\* Family "span": two rows over one flush-left column; a row may have a
\* one-byte token before its first anchor, a second token in its
\* cell, and a one-byte token after its subtree (a separator with no space
\* before it, or a comment with one).
SpanRows(indent) ==
  {RowOf(pre, <<<<first>> \o inner>>, epilog, <<TRUE>>, indent, 1, FALSE) :
     pre \in {<< >>, <<Tok(1, 1)>>},
     first \in FreeTokens,
     inner \in {<< >>, <<Tok(1, 1)>>},
     epilog \in {<< >>, <<Tok(1, 0)>>, <<Tok(1, 1)>>}}

InputsSpan(indent) ==
  {[specs |-> <<r1, r2>>, gaps |-> <<1, 1>>, disabled |-> EmptyMap,
    limit |-> ColumnLimit, childless |-> FALSE] :
     r1 \in SpanRows(indent), r2 \in SpanRows(indent)}

\* Family "groups": 1..MaxRows rows of two one-token cells each, with or
\* without blank lines between them; the first token of the odd rows is l
\* bytes long and that of the even rows one byte; at most one row is ignored
\* or has another node type or both; at most one byte of the text is
\* format-disabled.
GroupsRow(l, kind, ignored) ==
  RowOf(<< >>, <<<<Tok(l, 1)>>, <<Tok(1, 1)>>>>, << >>, <<TRUE, TRUE>>, 0, kind, ignored)

\* special = 0: no special row; k in 1..n: row k is ignored; -k: row k has
\* kind 2; n + k: row k is ignored and has kind 2
GroupsSpecs(n, l, special) ==
  [i \in 1..n |-> GroupsRow(IF i % 2 = 1 THEN l ELSE 1,
                            IF special \in {-i, n + i} THEN 2 ELSE 1,
                            special \in {i, n + i})]

DisabledChoices(specs, gaps) ==
  {EmptyMap} \cup
  {Add(EmptyMap, Interval(x, x + 1)) : x \in 0..(Laid(specs, gaps).full_text.size - 1)}

\* Family "triples": three rows over two flush-left columns; every cell is
\* absent or one token with one space before it, and a cell of the first
\* column may have a second token.
TriplesRows ==
  {RowOf(<< >>, <<c1, c2>>, << >>, <<TRUE, TRUE>>, 0, 1, FALSE) :
     c1 \in {<< >>} \cup {<<Tok(l, 1)>> : l \in 1..MaxTokLen}
              \cup {<<Tok(l, 1), Tok(1, 1)>> : l \in 1..MaxTokLen},
     c2 \in {<< >>} \cup {<<Tok(l, 1)>> : l \in 1..MaxTokLen}} \ 
  {RowOf(<< >>, <<<< >>, << >>>>, << >>, <<TRUE, TRUE>>, 0, 1, FALSE)}

InputsTriples ==
  {[specs |-> <<r1, r2, r3>>, gaps |-> <<1, 1, 1>>, disabled |-> EmptyMap,
    limit |-> ColumnLimit, childless |-> FALSE] :
     r1 \in TriplesRows, r2 \in TriplesRows, r3 \in TriplesRows}

\* Family "pairs": four rows of two one-token cells each, with or without
\* blank lines between them; the first tokens of rows 1 and 3 are la and lb
\* bytes long, all others one byte.
InputsPairs(la, lb, gaps) ==
  [specs |-> <<GroupsRow(la, 1, FALSE), GroupsRow(1, 1, FALSE),
               GroupsRow(lb, 1, FALSE), GroupsRow(1, 1, FALSE)>>,
   gaps |-> gaps, disabled |-> EmptyMap, limit |-> ColumnLimit,
   childless |-> FALSE]

\* Family "assign": two rows `lhs = rhs ;` over four flush-left columns, one
\* token per cell; lhs and rhs are free in length, `=` and rhs have one
\* space before them, `;` has none, and the first token of both rows has sp
\* spaces before it.
AssignRow(lhs, rhs, sp) ==
  RowOf(<< >>, <<<<Tok(lhs, sp)>>, <<Tok(1, 1)>>, <<Tok(rhs, 1)>>, <<Tok(1, 0)>>>>,
        << >>, <<TRUE, TRUE, TRUE, TRUE>>, 0, 1, FALSE)

InputsAssign(la, ra, lb, rb, sp) ==
  [specs |-> <<AssignRow(la, ra, sp), AssignRow(lb, rb, sp)>>, gaps |-> <<1, 1>>,
   disabled |-> EmptyMap, limit |-> ColumnLimit, childless |-> FALSE]

\* Family "nested": two rows of two tokens over the columns of a node and
\* of a node below it; in a row whose upper node begins with the lower one
\* both anchors are on the first token (ReserveNewColumn takes the leftmost
\* leaf of each symbol), otherwise the second anchor is on the second token.
NestedRow(l, shared) ==
  [toks |-> <<Tok(l, 1), Tok(1, 1)>>,
   leafpos |-> 2,
   anchors |-> <<[path |-> PathsInOrder[1], pos |-> 1, flush_left |-> TRUE],
                 [path |-> PathsInOrder[2], pos |-> IF shared THEN 1 ELSE 2,
                  flush_left |-> TRUE]>>,
   indent |-> 0, kind |-> 1, ignored |-> FALSE]

InputsNested(la, sa, lb, sb) ==
  [specs |-> <<NestedRow(la, sa), NestedRow(lb, sb)>>, gaps |-> <<1, 1>>,
   disabled |-> EmptyMap, limit |-> ColumnLimit, childless |-> FALSE]

\* Family "stray": three rows of one column; rows are two tokens with the
\* anchor on the first, but one of them has no token that is the rightmost
\* leaf of its subtree and no anchor: it has n tokens (none only for the
\* middle row, which then adds no line to the text) and its leaf is the
\* token at leafpos, counted from its first token at 1.
StrayRow(n, leafpos) ==
  [toks |-> [j \in 1..n |-> Tok(1, 1)], leafpos |-> leafpos, anchors |-> << >>,
   indent |-> 0, kind |-> 1, ignored |-> FALSE]

StrayLeafPositions(n) == {-1, 0, n + 1}

InputsStray(l, k, n, leafpos) ==
  [specs |-> [i \in 1..3 |->
                IF i = k THEN StrayRow(n, leafpos)
                ELSE RowOf(<< >>, <<<<Tok(IF i = 1 THEN l ELSE 1, 1), Tok(1, 1)>>>>,
                           << >>, <<TRUE>>, 0, 1, FALSE)],
   gaps |-> [i \in 1..3 |-> IF i = k /\ n = 0 THEN 0 ELSE 1],
   disabled |-> EmptyMap, limit |-> ColumnLimit, childless |-> FALSE]

InputsGroups(n, l, gaps, special) ==
  {[specs |-> GroupsSpecs(n, l, special), gaps |-> gaps,
    disabled |-> d, limit |-> ColumnLimit, childless |-> FALSE] :
     d \in DisabledChoices(GroupsSpecs(n, l, special), gaps)}

\* the state at the call of TabularAlignTokens on the input inp; a childless
\* parent keeps its tokens but has no rows
CallWith(inp) ==
  LET laid == Laid(inp.specs, inp.gaps)
  IN  /\ ftokens = laid.ftokens
      /\ children = IF inp.childless THEN << >> ELSE laid.children
      /\ full_text = laid.full_text
      /\ disabled_byte_ranges = inp.disabled
      /\ column_limit = inp.limit
      /\ ftokens_before = laid.ftokens
      /\ ftokens_again = << >>

InitAlign ==
  /\ intervals_ = EmptyMap
  /\ other_ = EmptyMap
  /\ before_ = EmptyMap
  /\ op_ = NoOp
  /\ check_failed = FALSE
  /\ \/ \E flush \in [1..2 -> BOOLEAN], indent \in IndentChoices :
          \E inp \in InputsCells(flush, indent) : CallWith(inp)
     \/ \E indent \in IndentChoices :
          \E inp \in InputsSpan(indent) : CallWith(inp)
     \/ \E l \in 1..MaxTokLen :
          CallWith([specs |-> GroupsSpecs(1, l, 0), gaps |-> <<1>>,
                    disabled |-> EmptyMap, limit |-> ColumnLimit, childless |-> TRUE])
     \/ \E n \in 1..MaxRows :
          \E l \in 1..MaxTokLen, gaps \in [1..n -> 1..2], special \in (-n)..(2 * n) :
            \E inp \in InputsGroups(n, l, gaps, special) : CallWith(inp)
     \/ \E inp \in InputsTriples : CallWith(inp)
     \/ \E la \in 1..MaxTokLen, lb \in 1..MaxTokLen, gaps \in [1..4 -> 1..2] :
          CallWith(InputsPairs(la, lb, gaps))
     \/ \E la \in 1..MaxTokLen, ra \in 1..MaxTokLen,
           lb \in 1..MaxTokLen, rb \in 1..MaxTokLen, sp \in 0..MaxSpaces :
          CallWith(InputsAssign(la, ra, lb, rb, sp))
     \/ \E la \in 1..MaxTokLen, lb \in 1..MaxTokLen, sa \in BOOLEAN, sb \in BOOLEAN :
          CallWith(InputsNested(la, sa, lb, sb))
     \/ \E l \in 1..MaxTokLen, k \in 1..3, n \in 0..2 :
          /\ n = 0 => k = 2
          /\ \E leafpos \in StrayLeafPositions(n) : CallWith(InputsStray(l, k, n, leafpos))
  /\ pc = "start"
  /\ subpartitions_bounds = << >>
  /\ group_index = 0
  /\ outcome = << >>

SpecAlign == InitAlign /\ [][NextAlign]_vars

(***************************************************************************)
(* Claims about alignment                                                  *)
(***************************************************************************)
\* the groups the loop has been through
Processed == 1..Len(outcome)

GroupRows(g) ==
  SubSeq(children, subpartitions_bounds[g], subpartitions_bounds[g + 1] - 1)

GroupTokens(g) ==
  UNION {TokensRange(GroupRows(g)[i]) : i \in 1..Len(GroupRows(g))}

GroupUnchanged(g) == \A t \in GroupTokens(g) : ftokens[t] = ftokens_before[t]

\* the rows of group g that take part, and what AlignFilteredRows computes
\* for them from the tokens as they were at the call
GroupQualified(g) ==
  QualifiedPartitions(children, subpartitions_bounds[g], subpartitions_bounds[g + 1])

GroupPlan(g) == AlignmentPlan(GroupQualified(g), ftokens_before)

\* the token array the group would have if every row were respaced
PlanRespaced(plan) ==
  AlignAllRows(plan.column_configs, plan.column_properties, plan.matrix,
               ftokens_before, 1)

GroupRespaced(g) == PlanRespaced(GroupPlan(g))

Abstentions == {"empty", "disabled", "too_few_rows", "node_types_differ",
                "width_exceeds", "epilog_exceeds"}

\* C1: all-or-nothing.  A childless parent leaves every token as it was, and
\* every group the loop has been through without aligning it (disabled, fewer
\* than two qualifying rows, differing kinds, budget or epilog overflow) has
\* every token exactly as before the call.
C1_AllOrNothing ==
  /\ children = << >> => ftokens = ftokens_before
  /\ \A g \in Processed : outcome[g] \in Abstentions => GroupUnchanged(g)

\* a group given up for the epilog of a row, whose respacing would have
\* changed tokens: the call is over and the tokens are as before
C1_Witness ==
  /\ pc = "done"
  /\ \E g \in Processed :
       /\ outcome[g] = "epilog_exceeds"
       /\ GroupRespaced(g) # ftokens_before
       /\ GroupUnchanged(g)

\* the absolute start column of token t of a row: the leading spaces and
\* text lengths of the row's tokens before it, and its own leading spaces
StartColumn(row, toks, t) ==
  SumTokenWidths(toks, row.b, t) + LeadingSpacesLength(toks[t])

\* the absolute end column of a cell that ends before token e
EndColumn(row, toks, e) == SumTokenWidths(toks, row.b, e)

NonEmptyCell(g, r, c) ==
  ~RangeEmpty(GroupPlan(g).matrix[r][c].b, GroupPlan(g).matrix[r][c].e)

\* C2: in every aligned group, the non-empty cells of a column start at the
\* same absolute column in every row when the column and all columns before
\* it are flush-left, and end at the same absolute column in every row when
\* the column is flush-right.
C2_CommonColumns ==
  \A g \in Processed :
    outcome[g] = "aligned" =>
      LET rows == GroupQualified(g)
          plan == GroupPlan(g)
      IN  \A c \in 1..plan.num_columns :
            \A r1 \in 1..Len(rows), r2 \in 1..Len(rows) :
              (NonEmptyCell(g, r1, c) /\ NonEmptyCell(g, r2, c)) =>
                /\ (\A d \in 1..c : plan.column_properties[d].flush_left) =>
                     StartColumn(rows[r1], ftokens, plan.matrix[r1][c].b)
                       = StartColumn(rows[r2], ftokens, plan.matrix[r2][c].b)
                /\ ~plan.column_properties[c].flush_left =>
                     EndColumn(rows[r1], ftokens, plan.matrix[r1][c].e)
                       = EndColumn(rows[r2], ftokens, plan.matrix[r2][c].e)

\* the rendered width of a row: its indentation and the leading spaces and
\* text length of every token of the partition, epilog included
RenderedWidth(row, toks) == row.indent + SumTokenWidths(toks, row.b, row.e)

\* C3: every row of every aligned group renders within the column limit.
C3_WithinColumnLimit ==
  \A g \in Processed :
    outcome[g] = "aligned" =>
      \A r \in 1..Len(GroupQualified(g)) :
        RenderedWidth(GroupQualified(g)[r], ftokens) <= column_limit

\* the bytes of group g: from the begin of its first row's first token to
\* the end of its last row's last token
GroupBytes(g) ==
  LET rows == GroupRows(g)
      front == rows[1]
      back == rows[Len(rows)]
  IN  TextBegin(ftokens[front.b])..(TextEnd(ftokens[back.e - 1]) - 1)

DisabledBytes == Values(disabled_byte_ranges)

\* C9: a group is skipped as format-disabled exactly when its byte span
\* holds a byte of the disabled set, whichever row the byte is in, and a
\* skipped group has all its tokens as they were.
C9_DisabledGroupSkippedWhole ==
  \A g \in Processed :
    /\ outcome[g] = "disabled" <=> GroupBytes(g) \cap DisabledBytes # {}
    /\ outcome[g] = "disabled" => GroupUnchanged(g)

\* a group of three rows with a disabled byte in its middle row only,
\* skipped although respacing would have changed its tokens
C9_Witness ==
  /\ pc = "done"
  /\ \E g \in Processed :
       LET rows == GroupRows(g)
       IN  /\ outcome[g] = "disabled"
           /\ Len(rows) = 3
           /\ DisabledBytes \subseteq
                TextBegin(ftokens[rows[2].b])..(TextEnd(ftokens[rows[2].e - 1]) - 1)
           /\ GroupRespaced(g) # ftokens_before
           /\ GroupUnchanged(g)
  /\ disabled_byte_ranges # EmptyMap

\* whether the budget lets the group be aligned: the indentation of the
\* first row and the columns fit the limit, and so do they with the epilog
\* of every row
FitsBudget(rows, plan) ==
  /\ plan.total_column_width <= column_limit
  /\ \A r \in 1..Len(rows) :
       plan.total_column_width
         + EffectiveCellWidth(ftokens_before,
                              plan.matrix[r][plan.num_columns].e, rows[r].e)
         <= column_limit

PassedRowChecks(g) == outcome[g] \in {"aligned", "width_exceeds", "epilog_exceeds"}

\* C10: a group that passed the row checks (and has a column, hence an
\* epilog per row) is respaced if and only if its total column width, and
\* that width with the epilog of each row, are at most the column limit;
\* when it is not respaced its tokens are unchanged.
C10_BudgetCheck ==
  \A g \in Processed :
    PassedRowChecks(g) =>
      LET rows == GroupQualified(g)
          plan == AlignmentPlan(rows, ftokens_before)
          respaced == PlanRespaced(plan)
      IN  plan.num_columns > 0 =>
            /\ outcome[g] = "aligned" <=> FitsBudget(rows, plan)
            /\ outcome[g] = "aligned" =>
                 \A t \in GroupTokens(g) : ftokens[t] = respaced[t]
            /\ outcome[g] # "aligned" => GroupUnchanged(g)

\* a group left unchanged because the epilog of its last row alone brings
\* the width to the limit plus one, where respacing would have changed it
C10_Witness ==
  /\ pc = "done"
  /\ \E g \in Processed :
       LET rows == GroupQualified(g)
           plan == GroupPlan(g)
           n == Len(rows)
           with_epilog(r) ==
             plan.total_column_width
               + EffectiveCellWidth(ftokens_before,
                                    plan.matrix[r][plan.num_columns].e, rows[r].e)
       IN  /\ outcome[g] = "epilog_exceeds"
           /\ with_epilog(n) = column_limit + 1
           /\ \A r \in 1..(n - 1) : with_epilog(r) <= column_limit
           /\ GroupRespaced(g) # ftokens_before
           /\ GroupUnchanged(g)

\* the rows of group g for which ignore_pred is false
NotIgnoredRows(g) == SelectSeq(GroupRows(g), LAMBDA row : ~row.ignored)

\* at least two rows remain and they have one node kind
RowsQualify(rows) ==
  /\ Len(rows) >= 2
  /\ \A i \in 1..Len(rows), j \in 1..Len(rows) : rows[i].kind = rows[j].kind

\* C11: a group that is not skipped as disabled is refused for its rows
\* exactly when, ignored rows left out, fewer than two rows remain or the
\* remaining rows differ in node kind; it is respaced only if its rows
\* qualify, and a refused group has every token unchanged.
C11_RowQualification ==
  \A g \in Processed :
    outcome[g] \notin {"empty", "disabled"} =>
      /\ outcome[g] \in {"too_few_rows", "node_types_differ"}
           <=> ~RowsQualify(NotIgnoredRows(g))
      /\ outcome[g] = "too_few_rows" <=> Len(NotIgnoredRows(g)) < 2
      /\ outcome[g] = "aligned" => RowsQualify(NotIgnoredRows(g))
      /\ ~RowsQualify(NotIgnoredRows(g)) => GroupUnchanged(g)

\* a group of three rows whose ignored row has another node kind than the
\* two others: it is aligned, tokens change, and the ignored row's do not
C11_Witness ==
  /\ pc = "done"
  /\ \E g \in Processed :
       /\ outcome[g] = "aligned"
       /\ Len(GroupRows(g)) = 3
       /\ Len(NotIgnoredRows(g)) = 2
       /\ \E i \in 1..3 : GroupRows(g)[i].ignored
                          /\ GroupRows(g)[i].kind # NotIgnoredRows(g)[1].kind
                          /\ \A t \in TokensRange(GroupRows(g)[i]) :
                               ftokens[t] = ftokens_before[t]
       /\ ~GroupUnchanged(g)

\* the number of newlines of the text strictly between the end of child
\* i - 1 and the begin of child i
GapNewlines(i) ==
  Cardinality({o \in full_text.newlines :
                 /\ TextEnd(ftokens[children[i - 1].e - 1]) <= o
                 /\ o < TextBegin(ftokens[children[i].b])})

BoundarySet == {subpartitions_bounds[k] : k \in 1..Len(subpartitions_bounds)}

\* C12: once the boundaries are computed for a non-empty child sequence,
\* they run strictly upwards from the first child to one past the last (so
\* the groups are non-empty, consecutive and cover every child once), a
\* child other than the first is a boundary iff the gap before it holds at
\* least 2 newlines, and every aligned group has exactly the spacings that
\* its own rows give, whatever the other groups were.
C12_BlankLineGrouping ==
  (pc # "start" /\ children # << >>) =>
    LET bounds == subpartitions_bounds
        n == Len(children)
    IN  /\ Len(bounds) >= 2
        /\ bounds[1] = 1
        /\ bounds[Len(bounds)] = n + 1
        /\ \A k \in 1..(Len(bounds) - 1) : bounds[k] < bounds[k + 1]
        /\ \A i \in 2..n : i \in BoundarySet <=> GapNewlines(i) >= 2
        /\ \A g \in Processed :
             outcome[g] = "aligned" =>
               LET alone == AlignFilteredRows(NotIgnoredRows(g), ftokens_before,
                                              column_limit)
               IN  /\ alone.result = "aligned"
                   /\ \A t \in GroupTokens(g) : ftokens[t] = alone.toks[t]

\* four rows, a blank line between rows 2 and 3 only: two groups, both
\* aligned; the first column of the first group is wider than that of the
\* second, the first group is padded for it and the second is not
C12_Witness ==
  /\ pc = "done"
  /\ Len(children) = 4
  /\ subpartitions_bounds = <<1, 3, 5>>
  /\ outcome = <<"aligned", "aligned">>
  /\ GroupPlan(1).column_configs[1].width > GroupPlan(2).column_configs[1].width
  /\ ~GroupUnchanged(1)
  /\ GroupUnchanged(2)

\* what the second call does with group g: it works on the tokens the first
\* call left
SecondOutcome(g) ==
  AlignPartitionGroup(children, ftokens, subpartitions_bounds[g],
                      subpartitions_bounds[g + 1], column_limit).result

\* C13: a second call with the same arguments leaves, in every group that
\* the first call aligned and the second call aligns again, every token
\* with the spaces_required the first call gave it.
C13_FixedPoint ==
  pc = "again" =>
    \A g \in Processed :
      (outcome[g] = "aligned" /\ SecondOutcome(g) = "aligned") =>
        \A t \in GroupTokens(g) :
          ftokens_again[t].spaces_required = ftokens[t].spaces_required

\* the sequence rows without its element r
WithoutRow(rows, r) == SubSeq(rows, 1, r - 1) \o SubSeq(rows, r + 1, Len(rows))

\* the width of the column of path p in a plan
WidthOfPath(plan, p) ==
  LET c == CHOOSE c \in 1..plan.num_columns : plan.column_positions[c] = p
  IN  plan.column_configs[c].width

PathsOf(plan) == {plan.column_positions[c] : c \in 1..plan.num_columns}

\* C14: once a group is aligned, the widths computed for its rows without
\* any one of them (on the tokens the alignment left) are, for every column
\* that still exists, at most the width the column had.
C14_RowRemovalMonotone ==
  \A g \in Processed :
    outcome[g] = "aligned" =>
      LET rows == GroupQualified(g)
          first == AlignmentPlan(rows, ftokens_before)
      IN  \A r \in 1..Len(rows) :
            Len(rows) >= 3 =>
              LET second == AlignmentPlan(WithoutRow(rows, r), ftokens)
              IN  /\ PathsOf(second) \subseteq PathsOf(first)
                  /\ \A p \in PathsOf(second) :
                       WidthOfPath(second, p) <= WidthOfPath(first, p)

\* an aligned group of three rows where taking one row away makes one
\* column narrower and another column disappear
C14_Witness ==
  /\ pc = "done"
  /\ outcome = <<"aligned">>
  /\ ftokens # ftokens_before
  /\ LET rows == GroupQualified(1)
         first == AlignmentPlan(rows, ftokens_before)
     IN  /\ Len(rows) = 3
         /\ \E r \in 1..3 :
              LET second == AlignmentPlan(WithoutRow(rows, r), ftokens)
              IN  /\ PathsOf(second) # PathsOf(first)
                  /\ \E p \in PathsOf(second) :
                       WidthOfPath(second, p) < WidthOfPath(first, p)

\* the first tokens of the non-empty cells of the non-ignored rows of
\* group g
CellFirstTokens(g) ==
  LET rows == NotIgnoredRows(g)
      plan == AlignmentPlan(rows, ftokens_before)
      cells == {rc \in (1..Len(rows)) \X (1..plan.num_columns) :
                  ~RangeEmpty(plan.matrix[rc[1]][rc[2]].b, plan.matrix[rc[1]][rc[2]].e)}
  IN  {plan.matrix[rc[1]][rc[2]].b : rc \in cells}

\* the token array `after` differs from `before` at most in the
\* spaces_required of the tokens in `writable`
SameBut(before, after, writable) ==
  /\ Len(after) = Len(before)
  /\ \A t \in 1..Len(before) :
       /\ after[t].tb = before[t].tb
       /\ after[t].len = before[t].len
       /\ t \notin writable => after[t].spaces_required = before[t].spaces_required

\* C15: a call changes nothing but the spaces_required of first tokens of
\* non-empty cells in non-ignored rows of the groups it aligns: the tokens
\* keep their number, order and text, and every other token (later tokens
\* of a cell, tokens before the first anchor, epilog tokens, tokens of
\* ignored rows and of groups not aligned) keeps its spacing; the same
\* holds for a second call.
C15_Frame ==
  /\ SameBut(ftokens_before, ftokens,
             UNION {CellFirstTokens(g) : g \in {h \in Processed : outcome[h] = "aligned"}})
  /\ pc = "again" =>
       SameBut(ftokens, ftokens_again,
               UNION {CellFirstTokens(g) :
                        g \in {h \in Processed : SecondOutcome(h) = "aligned"}})

\* an aligned group with a row that has a token before its first anchor, a
\* second token in its cell and an epilog token: the first token of a cell
\* has changed and those three have not
C15_Witness ==
  /\ pc = "done"
  /\ outcome = <<"aligned">>
  /\ \E r \in 1..Len(children) :
       LET row == children[r]
       IN  /\ row.e - row.b = 4
           /\ row.sparse[1].tok = row.b + 1
           /\ row.leaf = row.b + 2
           /\ ftokens[row.b + 1].spaces_required
                # ftokens_before[row.b + 1].spaces_required
           /\ \A t \in {row.b, row.b + 2, row.b + 3} : ftokens[t] = ftokens_before[t]

\* the call was made on the rows `a = 1;` and `bb = 22;` of scenario E1,
\* at the start of their lines, with the column limit 40
ScenarioE1 ==
  /\ ftokens_before = Laid(InputsAssign(1, 1, 2, 2, 0).specs, <<1, 1>>).ftokens
  /\ Len(children) = 2
  /\ column_limit = ColumnLimit

\* the leading spaces of the tokens, in order
Spacings(toks) == [t \in 1..Len(toks) |-> toks[t].spaces_required]

\* the text of a row as the spacings and lengths give it: the start column
\* of each of its tokens
StartColumns(row, toks) ==
  [k \in 1..(row.e - row.b) |-> StartColumn(row, toks, row.b + k - 1)]

\* C17 as stated: scenario E1 renders as `a  = 1;` and `bb = 22;`, that is
\* two spaces before the first `=`, one before each other `=` and rhs, and
\* none before either `;`.
C17_ScenarioE1 ==
  (pc = "done" /\ ScenarioE1) =>
    /\ outcome = <<"aligned">>
    /\ Spacings(ftokens) = <<0, 2, 1, 0, 0, 1, 1, 0>>

\* C17 amended: scenario E1 renders as `a  = 1 ;` and `bb = 22;`: the lhs
\* column is 2 wide, both `=` start at column 3, both rhs at column 5 and
\* both `;` at column 7, so the `;` of the first row has one space before
\* it (the padding of its rhs cell) and that of the second row none.
C17_ScenarioE1Amended ==
  (pc = "done" /\ ScenarioE1) =>
    /\ outcome = <<"aligned">>
    /\ GroupPlan(1).num_columns = 4
    /\ GroupPlan(1).column_configs[1].width = 2
    /\ Spacings(ftokens) = <<0, 2, 1, 1, 0, 1, 1, 0>>
    /\ StartColumns(children[1], ftokens) = <<0, 3, 5, 7>>
    /\ StartColumns(children[2], ftokens) = <<0, 3, 5, 7>>

\* scenario E1 has been aligned
C17_Witness ==
  /\ pc = "done"
  /\ ScenarioE1
  /\ outcome = <<"aligned">>
  /\ ftokens[2].spaces_required = 2

\* the anchors of a row for the path p
AnchorsFor(row, p) == {k \in 1..Len(row.sparse) : row.sparse[k].path = p}

\* the matrix has the shape the fill gives it: one cell per unique path of
\* the group, the paths strictly increasing, each cell ending where the
\* next begins and the last at the end of the row's mutable token range
MatrixShape(rows, plan) ==
  /\ plan.num_columns = Cardinality(CellMapPaths(rows))
  /\ \A c \in 1..(plan.num_columns - 1) :
       PathLess(plan.column_positions[c], plan.column_positions[c + 1])
  /\ \A r \in 1..Len(rows) :
       /\ Len(plan.matrix[r]) = plan.num_columns
       /\ \A c \in 1..(plan.num_columns - 1) :
            plan.matrix[r][c].e = plan.matrix[r][c + 1].b
       /\ \A c \in 1..plan.num_columns : plan.matrix[r][c].b <= plan.matrix[r][c].e
       /\ plan.num_columns > 0 =>
            plan.matrix[r][plan.num_columns].e = plan.ranges[r].e

LeafInPartition(row) == row.b <= row.leaf /\ row.leaf < row.e

\* C19: for every row whose rightmost leaf is one of its tokens the
\* backward scan ends normally with the mutable range from the row's first
\* token up to and including the leaf; and in every group whose widths are
\* computed no cell of such a row reaches beyond the leaf, the epilog of
\* the row is exactly the tokens after the leaf, and those tokens keep
\* their spacing.
C19_RowExtraction ==
  /\ \A r \in 1..Len(children) :
       LeafInPartition(children[r]) =>
         GetMutableFormatTokenRange(children[r])
           = [b |-> children[r].b, e |-> children[r].leaf + 1, st |-> "ok"]
  /\ \A g \in Processed :
       PassedRowChecks(g) =>
         LET rows == GroupQualified(g)
             plan == GroupPlan(g)
         IN  \A r \in 1..Len(rows) :
               (LeafInPartition(rows[r]) /\ plan.num_columns > 0) =>
                 /\ \A c \in 1..plan.num_columns :
                      plan.matrix[r][c].e <= rows[r].leaf + 1
                 /\ plan.matrix[r][plan.num_columns].e = rows[r].leaf + 1
                 /\ EpilogWidth(rows, ftokens_before, plan, r)
                      = EffectiveCellWidth(ftokens_before, rows[r].leaf + 1, rows[r].e)
                 /\ \A t \in (rows[r].leaf + 1)..(rows[r].e - 1) :
                      ftokens[t] = ftokens_before[t]

\* an aligned group with a row that has one token after its leaf: the
\* row's last cell ends at the leaf, the token after it is the epilog, and
\* the leaf's cell has been respaced
C19_Witness ==
  /\ pc = "done"
  /\ outcome = <<"aligned">>
  /\ \E r \in 1..Len(children) :
       LET row == children[r]
           plan == GroupPlan(1)
       IN  /\ row.leaf = row.e - 2
           /\ GetMutableFormatTokenRange(row).e = row.e - 1
           /\ plan.matrix[r][plan.num_columns].e = row.e - 1
           /\ EpilogWidth(GroupQualified(1), ftokens_before, plan, r) > 0
           /\ ftokens[row.e - 1] = ftokens_before[row.e - 1]
           /\ \E t \in row.b..row.leaf : ftokens[t] # ftokens_before[t]

\* the groups whose rows AlignFilteredRows took the token ranges of
RangesTaken(g) ==
  outcome[g] \notin {"empty", "disabled", "too_few_rows", "node_types_differ"}

\* C20: in every group whose token ranges are taken, a row none of whose
\* tokens is the rightmost leaf of its subtree (a row without tokens
\* included) makes the call end in the failed CHECK, and the scan has read
\* no position before the row's first token.
C20_FailureMode ==
  \A g \in Processed :
    RangesTaken(g) =>
      \A r \in 1..Len(GroupQualified(g)) :
        LET row == GroupQualified(g)[r]
        IN  ~LeafInPartition(row) =>
              /\ outcome[g] = "check"
              /\ \A p \in ScanInspected(row.e, row.leaf) : p >= row.b

\* the part of C20 that holds: whatever the leaf, a range that is handed
\* on never starts after it ends
C20_RangeOrdered ==
  \A r \in 1..Len(children) :
    LET range == GetMutableFormatTokenRange(children[r])
    IN  range.st = "ok" => range.b <= range.e

(***************************************************************************)
(* Claims about the interval set                                           *)
(***************************************************************************)
\* the entries of m in key order are non-empty and neither overlap nor abut
Canonical(m) ==
  /\ \A k \in DOMAIN m : k < m[k]
  /\ \A a \in DOMAIN m, b \in DOMAIN m : a < b => m[a] < b

\* Add never hands std::map::erase a reversed iterator range.
AddEraseRangeOrdered ==
  \A interval \in ValidIntervals :
    ~empty(interval) =>
      AddEraseRange(intervals_, interval)[1] <= AddEraseRange(intervals_, interval)[2]

\* C4: starting from the empty set, after any sequence of Add(interval) and
\* Add(value) calls every stored entry has min < max and consecutive entries
\* a, b satisfy a.max < b.min (no overlap, no abutment); the integrity
\* CHECKs of Add never fail.
C4_CanonicalForm ==
  /\ Canonical(intervals_)
  /\ Canonical(other_)
  /\ (check_failed => op_.name = "AddInvalid" /\ ~valid(op_.a))

\* C4 witness: an Add call fused stored entries (the set lost an entry).
C4_Witness ==
  /\ op_.name = "Add"
  /\ ~check_failed
  /\ Cardinality(DOMAIN intervals_) < Cardinality(DOMAIN before_)
  /\ \E k \in DOMAIN before_ : before_[k] = op_.a.min

\* C5: Add(interval) is set union: afterwards every value of the interval
\* is contained, every value outside it is contained iff it was contained
\* before, and adding an empty interval leaves the map as it was.
C5_AddIsUnion ==
  op_.name = "Add" =>
    /\ \A v \in T :
         Contains(intervals_, v) <=> (contains(op_.a, v) \/ Contains(before_, v))
    /\ empty(op_.a) => SetsEqual(intervals_, before_)

\* C5 witness: an Add call of a non-empty interval absorbed a stored entry
\* and kept a stored entry that lies outside the interval.
C5_Witness ==
  /\ op_.name = "Add"
  /\ ~empty(op_.a)
  /\ \E k \in DOMAIN before_ : k \notin DOMAIN intervals_
  /\ \E k \in DOMAIN before_ : k > op_.a.max /\ k \in DOMAIN intervals_

\* C6: Add(a); Add(b) and Add(b); Add(a) applied to copies of one set give
\* equal sets (operator==), and Add(x); Add(x) gives a set equal to Add(x).
C6_AddCommutesAndIdempotent ==
  op_.name \in {"AddBothOrders", "AddTwice"} => SetsEqual(intervals_, other_)

\* C6 witness: two different overlapping intervals were added in both
\* orders to a non-empty set.
C6_Witness ==
  /\ op_.name = "AddBothOrders"
  /\ DOMAIN before_ # {}
  /\ op_.a # op_.b
  /\ op_.a.min < op_.b.min /\ op_.b.min < op_.a.max /\ op_.a.max < op_.b.max
  /\ ~SetsEqual(intervals_, before_)

\* C7: Complement(bound) leaves exactly the values of [lo,hi) that were not
\* in the set, in canonical form; an empty bound gives the empty set.
C7_ComplementIsDifference ==
  op_.name = "Complement" =>
    /\ \A v \in T :
         Contains(intervals_, v) <=> (contains(op_.a, v) /\ ~Contains(before_, v))
    /\ Canonical(intervals_)
    /\ empty(op_.a) => SetsEqual(intervals_, EmptyMap)

\* C7 witness: a set of two entries strictly inside the bound was
\* complemented into three entries, as {[2,4),[6,8)} in [0,10) is.
C7_Witness ==
  /\ op_.name = "Complement"
  /\ Cardinality(DOMAIN before_) = 2
  /\ Cardinality(DOMAIN intervals_) = 3
  /\ begin(intervals_) = op_.a.min
  /\ \E k \in DOMAIN intervals_ : intervals_[k] = op_.a.max

\* C8: for a set that lies inside the bound, Complement(bound) twice gives
\* a set equal (operator==) to the original.
C8_ComplementInvolution ==
  (op_.name = "ComplementTwice" /\ \A v \in Values(before_) : contains(op_.a, v))
    => SetsEqual(intervals_, before_)

\* C8 witness: a non-empty set inside a bound that is larger than the set
\* was complemented twice.
C8_Witness ==
  /\ op_.name = "ComplementTwice"
  /\ DOMAIN before_ # {}
  /\ \A v \in Values(before_) : contains(op_.a, v)
  /\ DOMAIN other_ # {}

\* C16: on every set built by Add, Contains(value) is true iff an entry
\* [a, b) has a <= value < b, and Contains(interval) for a valid interval is
\* true iff the interval is not empty and one entry [a, b) has
\* a <= interval.min and interval.max <= b; an empty interval is never
\* contained.
C16_Contains ==
  ~check_failed =>
    /\ \A v \in T :
         Contains(intervals_, v)
           <=> \E a \in DOMAIN intervals_ : a <= v /\ v < intervals_[a]
    /\ \A i \in ValidIntervals :
         ContainsInterval(intervals_, i)
           <=> /\ i.min # i.max
               /\ \E a \in DOMAIN intervals_ : a <= i.min /\ i.max <= intervals_[a]

\* a set of two entries: a whole entry is contained, the interval from the
\* first entry's begin to the last entry's end is not, and an empty interval
\* at a contained value is not
C16_Witness ==
  /\ ~check_failed
  /\ Cardinality(DOMAIN intervals_) = 2
  /\ \E a \in DOMAIN intervals_ :
       /\ intervals_[a] >= a + 2
       /\ ContainsInterval(intervals_, Interval(a, intervals_[a]))
       /\ Contains(intervals_, a + 1)
       /\ ~ContainsInterval(intervals_, Interval(a + 1, a + 1))
  /\ ~ContainsInterval(intervals_,
                       Interval(SetMin(DOMAIN intervals_),
                                intervals_[SetMax(DOMAIN intervals_)]))

=============================================================================
